---------------------------- MODULE Spec2Model ----------------------------
(***************************************************************************)
(* Card sheet generator: catalog discovery (list_games), the document      *)
(* pipeline (generate_pdf: sequence builders, page compositor, save) and   *)
(* the request handler of the form (generate_document).                    *)
(***************************************************************************)
EXTENDS Integers, Sequences, FiniteSets, TLC

(***************************************************************************)
(* Program constants (pdf_generator.py, lines 13-23).                      *)
(***************************************************************************)
PAGE_WIDTH == 3111
PAGE_HEIGHT == 4404
CARD_WIDTH == 796
CARD_HEIGHT == 1244
CARD_SPACING == 0
COLUMN_COUNT == 3
ROW_COUNT == 3
CARDS_PER_PAGE == COLUMN_COUNT * ROW_COUNT
ALLOWED_EXTENSIONS == {".png", ".jpg", ".jpeg", ".webp", ".bmp"}

(***************************************************************************)
(* Bounds of the model.                                                    *)
(***************************************************************************)
\* largest count a quantity map holds for one name (smallest is -1)
MaxCount == 5
\* largest value entered in a number input of the form
MaxInput == 1

(***************************************************************************)
(* The file system.  A directory entry is a file name; FileOrder lists the *)
(* names of the model in the order sorted() gives paths of one directory   *)
(* (string order: upper case before '_' before lower case).                *)
(***************************************************************************)
FileOrder ==
    <<"B.PNG", "PARTE_ATRAS.jpg", "a.jpg", "a.png", "notes.txt",
      "parte_atras.png", "sub.png">>

Files == {FileOrder[i] : i \in 1..Len(FileOrder)}

\* Path.is_file(): "sub.png" is a directory that carries an image suffix
is_file(f) == f # "sub.png"

\* Path.stem
stem(f) ==
    CASE f = "B.PNG" -> "B"
      [] f = "PARTE_ATRAS.jpg" -> "PARTE_ATRAS"
      [] f = "a.jpg" -> "a"
      [] f = "a.png" -> "a"
      [] f = "notes.txt" -> "notes"
      [] f = "parte_atras.png" -> "parte_atras"
      [] f = "sub.png" -> "sub"

\* Path.suffix
suffix(f) ==
    CASE f = "B.PNG" -> ".PNG"
      [] f = "PARTE_ATRAS.jpg" -> ".jpg"
      [] f = "a.jpg" -> ".jpg"
      [] f = "a.png" -> ".png"
      [] f = "notes.txt" -> ".txt"
      [] f = "parte_atras.png" -> ".png"
      [] f = "sub.png" -> ".png"

\* str.lower() on the strings of the model
lower(s) ==
    CASE s = "B" -> "b"
      [] s = "PARTE_ATRAS" -> "parte_atras"
      [] s = ".PNG" -> ".png"
      [] OTHER -> s

\* sorted(folder.iterdir()): the entries of a directory in path order
RECURSIVE SortedFrom(_, _)
SortedFrom(entries, i) ==
    IF i > Len(FileOrder) THEN <<>>
    ELSE (IF FileOrder[i] \in entries THEN <<FileOrder[i]>> ELSE <<>>)
         \o SortedFrom(entries, i + 1)

sorted(entries) == SortedFrom(entries, 1)

\* The entries of the base directory, in sorted order.  "LEEME.txt" is a
\* plain file of the base directory; the others are folders when present.
EntryOrder == <<"Bar", "Foo", "LEEME.txt">>

FolderNames == {"Bar", "Foo"}

\* A base directory: its folders with their entries, and whether the plain
\* file is there.
Trees ==
    {[dirs |-> d, plain |-> p] :
        d \in UNION {[D -> SUBSET Files] : D \in SUBSET FolderNames},
        p \in BOOLEAN}

\* p.is_dir() for an entry of the base directory
is_dir(tree, e) == e \in DOMAIN tree.dirs

\* base_path.iterdir()
iterdir(tree) ==
    DOMAIN tree.dirs \cup (IF tree.plain THEN {"LEEME.txt"} ELSE {})

(***************************************************************************)
(* CardCatalog: _load_game_assets and list_games.                          *)
(***************************************************************************)
CardAsset(n, p) == [name |-> n, path |-> p]

\* card_name.lower() == "parte_atras"  (line 133)
IsBackStemExact(card_name) == card_name = "parte_atras"

IsBackStem(card_name) == lower(card_name) = "parte_atras"

\* the list comprehension of lines 122-126
RECURSIVE ImagesOf(_)
ImagesOf(paths) ==
    IF paths = <<>> THEN <<>>
    ELSE (IF is_file(Head(paths)) /\ lower(suffix(Head(paths))) \in ALLOWED_EXTENSIONS
          THEN <<Head(paths)>> ELSE <<>>)
         \o ImagesOf(Tail(paths))

\* the loop of lines 131-136: back is the sequence of zero or one file that
\* back_card_path holds, fronts the list front_cards
RECURSIVE PartitionLoop(_, _, _, _)
PartitionLoop(folder, images, back, fronts) ==
    IF images = <<>> THEN [back |-> back, fronts |-> fronts]
    ELSE IF IsBackStem(stem(Head(images)))
         THEN PartitionLoop(folder, Tail(images), <<Head(images)>>, fronts)
         ELSE PartitionLoop(folder, Tail(images), back,
                  Append(fronts, CardAsset(stem(Head(images)), <<folder, Head(images)>>)))

\* _load_game_assets: [ok |-> FALSE] stands for the ValueError of line 139
_load_game_assets(tree, folder) ==
    LET images == ImagesOf(sorted(tree.dirs[folder]))
        parts == PartitionLoop(folder, images, <<>>, <<>>)
    IN IF parts.back = <<>>
       THEN [ok |-> FALSE]
       ELSE [ok |-> TRUE,
             name |-> folder,
             front_cards |-> parts.fronts,
             back_card |-> CardAsset("parte_atras", <<folder, parts.back[1]>>)]

\* the loop of list_games, lines 63-69, from entry i of the sorted base
\* directory on; games maps names to GameAssets
RECURSIVE ListLoop(_, _, _)
ListLoop(tree, i, games) ==
    IF i > Len(EntryOrder) THEN games
    ELSE LET e == EntryOrder[i]
         IN IF ~(e \in iterdir(tree) /\ is_dir(tree, e))
            THEN ListLoop(tree, i + 1, games)
            ELSE LET assets == _load_game_assets(tree, e)
                 IN IF ~assets.ok
                    THEN ListLoop(tree, i + 1, games)
                    ELSE IF assets.front_cards # <<>>
                         THEN ListLoop(tree, i + 1,
                                  (e :> [name |-> assets.name,
                                         front_cards |-> assets.front_cards,
                                         back_card |-> assets.back_card])
                                  @@ games)
                         ELSE ListLoop(tree, i + 1, games)

list_games(tree) == ListLoop(tree, 1, <<>>)

(***************************************************************************)
(* Grid layout: _compute_layout_positions.  margin_x and margin_y are      *)
(* halves of integers, so every rounded value is kept as twice itself.     *)
(***************************************************************************)
\* int(v2 / 2) for v2 >= 0: truncation, the rounding a plain int() would do
py_trunc_half(v2) == v2 \div 2

\* int(round(v2 / 2)): Python 3 rounds a tie to the even neighbour
py_round_half(v2) ==
    LET q == v2 \div 2
    IN IF v2 % 2 = 0 THEN q
       ELSE IF q % 2 = 0 THEN q ELSE q + 1

_compute_layout_positions ==
    LET effective_width == COLUMN_COUNT * CARD_WIDTH + (COLUMN_COUNT - 1) * CARD_SPACING
        effective_height == ROW_COUNT * CARD_HEIGHT + (ROW_COUNT - 1) * CARD_SPACING
        margin_x2 == PAGE_WIDTH - effective_width
        margin_y2 == PAGE_HEIGHT - effective_height
        x_positions == [col \in 0..(COLUMN_COUNT - 1) |->
                           py_round_half(margin_x2 + 2 * col * (CARD_WIDTH + CARD_SPACING))]
        y_positions == [row \in 0..(ROW_COUNT - 1) |->
                           py_round_half(margin_y2 + 2 * row * (CARD_HEIGHT + CARD_SPACING))]
    IN [i \in 1..(ROW_COUNT * COLUMN_COUNT) |->
           <<x_positions[(i - 1) % COLUMN_COUNT], y_positions[(i - 1) \div COLUMN_COUNT]>>]

(***************************************************************************)
(* State.                                                                  *)
(***************************************************************************)
VARIABLES
    \* catalog discovery: the base directory and what list_games returned
    tree, catalog_pc, games,
    \* generate_pdf: its arguments and the files that cannot be decoded
    game, card_counts, undecodable,
    \* generate_pdf: position, locals, raised error
    pc, normalized_counts, total_front_cards, layout_positions,
    front_pages, back_pages, error,
    \* the running sequence generator and the image it handed over
    phase, gen, card_image,
    \* _render_pages locals
    pages, current_page, slot_index,
    \* output directory
    dir_created, prior_document, document,
    \* images and page buffers opened and not yet closed; history
    open_handles, load_log, front_log, back_log,
    \* the form: disk, startup metadata, inputs, dropdown, request
    disk, metadata, number_inputs, input_values, dropdown, dropdown_choices,
    button_interactive, ui_pc, request_counts, passed_game, passed_counts

catVars == <<tree, catalog_pc, games>>

pdfVars ==
    <<game, card_counts, undecodable, pc, normalized_counts, total_front_cards,
      layout_positions, front_pages, back_pages, error, phase, gen, card_image,
      pages, current_page, slot_index, dir_created, prior_document, document,
      open_handles, load_log, front_log, back_log>>

uiVars ==
    <<disk, metadata, number_inputs, input_values, dropdown, dropdown_choices,
      button_interactive, ui_pc, request_counts, passed_game, passed_counts>>

vars == <<catVars, pdfVars, uiVars>>

(***************************************************************************)
(* The inputs of generate_pdf.                                             *)
(***************************************************************************)
\* The base directory the games of the pipeline come from: "Bar" holds two
\* front cards, "Foo" two front files with the same stem.
GameTree ==
    [dirs |-> ("Bar" :> {"B.PNG", "a.png", "PARTE_ATRAS.jpg", "notes.txt"})
              @@ ("Foo" :> {"a.jpg", "a.png", "parte_atras.png"}),
     plain |-> TRUE]

Games == {list_games(GameTree)[n] : n \in DOMAIN list_games(GameTree)}

\* the names a quantity map may hold; "Z" is a front card of no game
CardNames == {"B", "a", "Z"}

QuantityMaps == UNION {[D -> (-1)..MaxCount] : D \in SUBSET CardNames}

PathsOf(g) ==
    {g.front_cards[i].path : i \in 1..Len(g.front_cards)} \cup {g.back_card.path}

NoGame == [name |-> "", front_cards |-> <<>>, back_card |-> CardAsset("", <<>>)]

NewGenerator == [idx |-> 0, left |-> 0, image |-> <<>>]

\* the file at document_path before the call: none, or the document an
\* earlier call of the same day wrote
InitialDocument(prior) ==
    [state |-> IF prior THEN "previous" ELSE "absent", pages |-> <<>>]

(***************************************************************************)
(* generate_pdf, lines 81-118, with the generators of lines 150-174 and    *)
(* _render_pages, lines 177-215.                                           *)
(***************************************************************************)
\* int(value) for the integers of the model, without the clamp
normalized_count_unclamped(value) == value

\* int(max(0, value))  (line 82)
normalized_count(value) == IF 0 >= value THEN 0 ELSE value

RECURSIVE SumOver(_, _)
SumOver(f, keys) ==
    IF keys = {} THEN 0
    ELSE LET k == CHOOSE x \in keys : TRUE
         IN f[k] + SumOver(f, keys \ {k})

\* sum(normalized_counts.values())
sum_values(f) == SumOver(f, DOMAIN f)

\* counts.get(card.name, 0)  (line 155)
counts_get(counts, name) == IF name \in DOMAIN counts THEN counts[name] ELSE 0

\* range(count) yielding once more than asked
copies_extra(count) == count + 1

\* the number of passes of "for _ in range(count)"  (lines 160, 171)
copies(count) == count

\* the for loop of line 154 from card j on: the first card whose count is
\* positive, or 0 when the loop runs out of cards
RECURSIVE NextCardIndex(_, _, _)
NextCardIndex(cards, counts, j) ==
    IF j > Len(cards) THEN 0
    ELSE IF counts_get(counts, cards[j].name) <= 0
         THEN NextCardIndex(cards, counts, j + 1)
         ELSE j

\* slot_index stays where it was
next_slot_stuck(slot) == slot

\* slot_index += 1  (line 201)
next_slot(slot) == slot + 1

\* lines 81-87
Normalize ==
    /\ pc = "normalize"
    /\ LET nc == [card \in DOMAIN card_counts |-> normalized_count(card_counts[card])]
       IN /\ normalized_counts' = nc
          /\ total_front_cards' = sum_values(nc)
          /\ IF sum_values(nc) <= 0
             THEN pc' = "raised" /\ error' = "ValueError"
             ELSE pc' = "mkdir" /\ error' = error
    /\ UNCHANGED <<catVars, uiVars,
                   game, card_counts, undecodable, layout_positions, front_pages,
                   back_pages, phase, gen, card_image, pages, current_page,
                   slot_index, dir_created, prior_document, document,
                   open_handles, load_log, front_log, back_log>>

\* MkDir with the document file opened for writing as soon as its path is known
MkDirOpensDocument ==
    /\ pc = "mkdir"
    /\ dir_created' = TRUE
    /\ document' = [state |-> "written", pages |-> <<>>]
    /\ layout_positions' = _compute_layout_positions
    /\ phase' = "front"
    /\ gen' = NewGenerator
    /\ pages' = <<>>
    /\ current_page' = <<>>
    /\ slot_index' = 0
    /\ pc' = "next"
    /\ UNCHANGED <<catVars, uiVars,
                   game, card_counts, undecodable, normalized_counts,
                   total_front_cards, front_pages, back_pages, error, card_image,
                   prior_document, open_handles, load_log, front_log, back_log>>

\* lines 89-97 and the first lines of _render_pages (181-188): the output
\* directory is made, the front generator is created (it runs nothing yet)
MkDir ==
    /\ pc = "mkdir"
    /\ dir_created' = TRUE
    /\ layout_positions' = _compute_layout_positions
    /\ phase' = "front"
    /\ gen' = NewGenerator
    /\ pages' = <<>>
    /\ current_page' = <<>>
    /\ slot_index' = 0
    /\ pc' = "next"
    /\ UNCHANGED <<catVars, uiVars,
                   game, card_counts, undecodable, normalized_counts,
                   total_front_cards, front_pages, back_pages, error, card_image,
                   prior_document, document, open_handles, load_log, front_log,
                   back_log>>

\* lines 210-215: the partial page, if any, is finalized
FinalPages ==
    IF current_page # <<>> /\ slot_index > 0
    THEN Append(pages, current_page[1])
    ELSE pages

\* the handles left when the loop ends: line 212 closes the page buffer only
\* under the condition of line 210
FinalHandles(handles) ==
    IF current_page # <<>> /\ slot_index > 0
    THEN handles \ {"page_buffer"}
    ELSE handles

\* _iter_front_sequence resumed inside "for _ in range(count)": one more copy
FrontYieldCopy ==
    /\ pc = "next" /\ phase = "front"
    /\ gen.left > 0
    /\ card_image' = gen.image
    /\ gen' = [gen EXCEPT !.left = gen.left - 1]
    /\ open_handles' = open_handles \cup {"card_copy"}
    /\ pc' = "paste"
    /\ UNCHANGED <<catVars, uiVars,
                   game, card_counts, undecodable, normalized_counts,
                   total_front_cards, layout_positions, front_pages, back_pages,
                   error, phase, pages, current_page, slot_index, dir_created,
                   prior_document, document, load_log, front_log, back_log>>

\* _iter_front_sequence resumed after the last copy of a card (or started):
\* the image is closed (line 163), the loop reaches the next card with a
\* positive count, loads it (line 158) and yields its first copy
FrontLoadNext ==
    /\ pc = "next" /\ phase = "front"
    /\ gen.left = 0
    /\ LET j == NextCardIndex(game.front_cards, normalized_counts, gen.idx + 1)
       IN /\ j # 0
          /\ game.front_cards[j].path \notin undecodable
          /\ load_log' = Append(load_log, game.front_cards[j].path)
          /\ gen' = [idx |-> j,
                     left |-> copies(counts_get(normalized_counts,
                                                game.front_cards[j].name)) - 1,
                     image |-> <<game.front_cards[j].path>>]
          /\ card_image' = <<game.front_cards[j].path>>
    /\ open_handles' = (open_handles \ {"card_image"}) \cup {"card_image", "card_copy"}
    /\ pc' = "paste"
    /\ UNCHANGED <<catVars, uiVars,
                   game, card_counts, undecodable, normalized_counts,
                   total_front_cards, layout_positions, front_pages, back_pages,
                   error, phase, pages, current_page, slot_index, dir_created,
                   prior_document, document, front_log, back_log>>

\* as FrontLoadNext, but _load_card_image raises: the error leaves the
\* generator, _render_pages (no handler, lines 190-208) and generate_pdf
FrontLoadFails ==
    /\ pc = "next" /\ phase = "front"
    /\ gen.left = 0
    /\ LET j == NextCardIndex(game.front_cards, normalized_counts, gen.idx + 1)
       IN /\ j # 0
          /\ game.front_cards[j].path \in undecodable
          /\ gen' = [idx |-> j, left |-> 0, image |-> <<>>]
    /\ open_handles' = open_handles \ {"card_image"}
    /\ pc' = "raised"
    /\ error' = "UnidentifiedImageError"
    /\ UNCHANGED <<catVars, uiVars,
                   game, card_counts, undecodable, normalized_counts,
                   total_front_cards, layout_positions, front_pages, back_pages,
                   phase, card_image, pages, current_page, slot_index,
                   dir_created, prior_document, document, load_log, front_log,
                   back_log>>

\* the front generator is exhausted: the loop of _render_pages ends, its
\* pages are returned (line 99) and the back rendering is set up (101-103)
FrontExhausted ==
    /\ pc = "next" /\ phase = "front"
    /\ gen.left = 0
    /\ NextCardIndex(game.front_cards, normalized_counts, gen.idx + 1) = 0
    /\ front_pages' = FinalPages
    /\ open_handles' = FinalHandles(open_handles \ {"card_image"})
    /\ phase' = "back"
    /\ gen' = NewGenerator
    /\ pages' = <<>>
    /\ current_page' = <<>>
    /\ slot_index' = 0
    /\ UNCHANGED <<catVars, uiVars,
                   game, card_counts, undecodable, pc, normalized_counts,
                   total_front_cards, layout_positions, back_pages, error,
                   card_image, dir_created, prior_document, document, load_log,
                   front_log, back_log>>

\* _iter_back_sequence started with a positive count: the back card is
\* loaded (line 169) and its first copy yielded
BackLoad ==
    /\ pc = "next" /\ phase = "back"
    /\ gen.idx = 0
    /\ total_front_cards > 0
    /\ game.back_card.path \notin undecodable
    /\ load_log' = Append(load_log, game.back_card.path)
    /\ gen' = [idx |-> 1, left |-> copies(total_front_cards) - 1,
               image |-> <<game.back_card.path>>]
    /\ card_image' = <<game.back_card.path>>
    /\ open_handles' = open_handles \cup {"card_image", "card_copy"}
    /\ pc' = "paste"
    /\ UNCHANGED <<catVars, uiVars,
                   game, card_counts, undecodable, normalized_counts,
                   total_front_cards, layout_positions, front_pages, back_pages,
                   error, phase, pages, current_page, slot_index, dir_created,
                   prior_document, document, front_log, back_log>>

\* as BackLoad, but _load_card_image raises
BackLoadFails ==
    /\ pc = "next" /\ phase = "back"
    /\ gen.idx = 0
    /\ total_front_cards > 0
    /\ game.back_card.path \in undecodable
    /\ gen' = [idx |-> 1, left |-> 0, image |-> <<>>]
    /\ pc' = "raised"
    /\ error' = "UnidentifiedImageError"
    /\ UNCHANGED <<catVars, uiVars,
                   game, card_counts, undecodable, normalized_counts,
                   total_front_cards, layout_positions, front_pages, back_pages,
                   phase, card_image, pages, current_page, slot_index,
                   dir_created, prior_document, document, open_handles,
                   load_log, front_log, back_log>>

\* _iter_back_sequence resumed inside its loop: one more copy
BackYieldCopy ==
    /\ pc = "next" /\ phase = "back"
    /\ gen.idx = 1
    /\ gen.left > 0
    /\ card_image' = gen.image
    /\ gen' = [gen EXCEPT !.left = gen.left - 1]
    /\ open_handles' = open_handles \cup {"card_copy"}
    /\ pc' = "paste"
    /\ UNCHANGED <<catVars, uiVars,
                   game, card_counts, undecodable, normalized_counts,
                   total_front_cards, layout_positions, front_pages, back_pages,
                   error, phase, pages, current_page, slot_index, dir_created,
                   prior_document, document, load_log, front_log, back_log>>

\* the back generator is exhausted (after its last copy, line 174 closing the
\* image, or at once for a count <= 0, line 167): back_pages is returned
BackExhausted ==
    /\ pc = "next" /\ phase = "back"
    /\ \/ gen.idx = 0 /\ total_front_cards <= 0
       \/ gen.idx = 1 /\ gen.left = 0
    /\ back_pages' = FinalPages
    /\ open_handles' = FinalHandles(open_handles \ {"card_image"})
    /\ pages' = <<>>
    /\ current_page' = <<>>
    /\ slot_index' = 0
    /\ pc' = "assemble"
    /\ UNCHANGED <<catVars, uiVars,
                   game, card_counts, undecodable, normalized_counts,
                   total_front_cards, layout_positions, front_pages, error,
                   phase, gen, card_image, dir_created, prior_document, document,
                   load_log, front_log, back_log>>

\* the body of the loop of _render_pages, lines 191-208, for one image
PasteCard ==
    /\ pc = "paste"
    /\ LET position_total == Len(layout_positions)
           page == IF current_page = <<>> THEN <<>> ELSE current_page[1]
           xy == layout_positions[slot_index + 1]
           placed == [card |-> card_image[1], page |-> Len(pages),
                      slot |-> slot_index, xy |-> xy]
           pasted == Append(page, placed)
           slot == next_slot(slot_index)
       IN /\ IF phase = "front"
             THEN front_log' = Append(front_log, placed) /\ back_log' = back_log
             ELSE back_log' = Append(back_log, placed) /\ front_log' = front_log
          /\ IF slot = position_total
             THEN /\ pages' = Append(pages, pasted)
                  /\ current_page' = <<>>
                  /\ slot_index' = 0
                  /\ open_handles' = open_handles \ {"card_copy", "page_buffer"}
             ELSE /\ pages' = pages
                  /\ current_page' = <<pasted>>
                  /\ slot_index' = slot
                  /\ open_handles' = (open_handles \ {"card_copy"}) \cup {"page_buffer"}
    /\ card_image' = <<>>
    /\ pc' = "next"
    /\ UNCHANGED <<catVars, uiVars,
                   game, card_counts, undecodable, normalized_counts,
                   total_front_cards, layout_positions, front_pages, back_pages,
                   error, phase, gen, dir_created, prior_document, document,
                   load_log>>

\* lines 105-118: the pages are concatenated and saved as one document
Assemble ==
    /\ pc = "assemble"
    /\ IF front_pages \o back_pages = <<>>
       THEN /\ pc' = "raised"
            /\ error' = "RuntimeError"
            /\ document' = document
       ELSE /\ pc' = "returned"
            /\ error' = error
            /\ document' = [state |-> "written", pages |-> front_pages \o back_pages]
    /\ UNCHANGED <<catVars, uiVars,
                   game, card_counts, undecodable, normalized_counts,
                   total_front_cards, layout_positions, front_pages, back_pages,
                   phase, gen, card_image, pages, current_page, slot_index,
                   dir_created, prior_document, open_handles, load_log,
                   front_log, back_log>>

(***************************************************************************)
(* The form (app.py).                                                      *)
(***************************************************************************)
\* sorted(games.keys())
sorted_keys(gs) == SelectSeq(EntryOrder, LAMBDA e : e \in DOMAIN gs)

\* _game_metadata, lines 26-29
_game_metadata(gs) ==
    LET sorted_names == sorted_keys(gs)
    IN [i \in 1..Len(sorted_names) |-> <<sorted_names[i], gs[sorted_names[i]]>>]

\* the loops of lines 86-106: one number input per front card of every game
\* of the startup metadata, in that order
RECURSIVE BuildNumberInputs(_, _)
BuildNumberInputs(meta, i) ==
    IF i > Len(meta) THEN <<>>
    ELSE [k \in 1..Len(meta[i][2].front_cards) |->
             [game |-> meta[i][1], card |-> meta[i][2].front_cards[k].name]]
         \o BuildNumberInputs(meta, i + 1)

\* form_columns: the games that got a form at startup
FormColumns == {metadata[i][1] : i \in 1..Len(metadata)}

\* the loop of lines 53-54 from position k on: the k-th received count goes
\* to the k-th card of the selected game
RECURSIVE ZipAssign(_, _, _, _)
ZipAssign(mapping, cards_order, relevant_counts, k) ==
    IF k > Len(cards_order) \/ k > Len(relevant_counts) THEN mapping
    ELSE ZipAssign([mapping EXCEPT ![cards_order[k]] = relevant_counts[k]],
                   cards_order, relevant_counts, k + 1)

\* counts[: len(cards_order)]  (line 52)
relevant_counts_of(counts, cards_order) ==
    SubSeq(counts, 1, IF Len(cards_order) < Len(counts) THEN Len(cards_order) ELSE Len(counts))

\* lines 49-54 of generate_document
count_mapping_of(g, counts) ==
    LET cards_order == [k \in 1..Len(g.front_cards) |-> g.front_cards[k].name]
        zeros == [name \in {cards_order[k] : k \in 1..Len(cards_order)} |-> 0]
    IN ZipAssign(zeros, cards_order, relevant_counts_of(counts, cards_order), 1)

\* The states of the base directory the form is run against: no game, two
\* games, the first game gone, the first game with one card less.
UITrees ==
    { [dirs |-> <<>>, plain |-> TRUE],
      [dirs |-> ("Bar" :> {"B.PNG", "a.png", "PARTE_ATRAS.jpg"})
                @@ ("Foo" :> {"a.jpg", "parte_atras.png"}),
       plain |-> TRUE],
      [dirs |-> ("Foo" :> {"a.jpg", "parte_atras.png"}), plain |-> TRUE],
      [dirs |-> ("Bar" :> {"a.png", "PARTE_ATRAS.jpg"})
                @@ ("Foo" :> {"a.jpg", "parte_atras.png"}),
       plain |-> TRUE] }

\* a user sets the number input i of the visible form (minimum=0,
\* maximum=10, precision=0, lines 98-105)
SetNumber(i, v) ==
    /\ ui_pc # "idle"
    /\ number_inputs[i].game = dropdown
    /\ input_values' = [input_values EXCEPT ![i] = v]
    /\ UNCHANGED <<catVars, pdfVars,
                   disk, metadata, number_inputs, dropdown, dropdown_choices,
                   button_interactive, ui_pc, request_counts, passed_game,
                   passed_counts>>

\* a user picks a game in the dropdown; _on_game_change, lines 112-121
SelectGame(g) ==
    /\ ui_pc # "idle"
    /\ g \in {dropdown_choices[i] : i \in 1..Len(dropdown_choices)}
    /\ dropdown' = g
    /\ button_interactive' = (g \in FormColumns)
    /\ UNCHANGED <<catVars, pdfVars,
                   disk, metadata, number_inputs, input_values, dropdown_choices,
                   ui_pc, request_counts, passed_game, passed_counts>>

\* the reload button: _refresh_games, lines 129-135, then _on_game_change
\* on the value it sets
RefreshGames ==
    /\ ui_pc # "idle"
    /\ LET options == sorted_keys(list_games(disk))
       IN /\ dropdown_choices' = options
          /\ dropdown' = IF options = <<>> THEN "None" ELSE options[1]
          /\ button_interactive' =
                 ((IF options = <<>> THEN "None" ELSE options[1]) \in FormColumns)
    /\ UNCHANGED <<catVars, pdfVars,
                   disk, metadata, number_inputs, input_values, ui_pc,
                   request_counts, passed_game, passed_counts>>

\* the folders under the base directory are changed while the form runs
ChangeDisk(t) ==
    /\ ui_pc # "idle"
    /\ t # disk
    /\ disk' = t
    /\ UNCHANGED <<catVars, pdfVars,
                   metadata, number_inputs, input_values, dropdown,
                   dropdown_choices, button_interactive, ui_pc, request_counts,
                   passed_game, passed_counts>>

\* the generate button, lines 139-143, and generate_document, lines 42-57,
\* for a game list_games finds: the quantity map handed to generate_pdf
GenerateDocument ==
    /\ ui_pc # "idle"
    /\ button_interactive
    /\ dropdown \in DOMAIN list_games(disk)
    /\ request_counts' = input_values
    /\ passed_game' = list_games(disk)[dropdown]
    /\ passed_counts' = count_mapping_of(list_games(disk)[dropdown], input_values)
    /\ ui_pc' = "called"
    /\ UNCHANGED <<catVars, pdfVars,
                   disk, metadata, number_inputs, input_values, dropdown,
                   dropdown_choices, button_interactive>>

\* as GenerateDocument, for a game that is no longer there: gr.Error, line 45
GenerateDocumentUnknown ==
    /\ ui_pc # "idle"
    /\ button_interactive
    /\ dropdown \notin DOMAIN list_games(disk)
    /\ request_counts' = input_values
    /\ ui_pc' = "error"
    /\ UNCHANGED <<catVars, pdfVars,
                   disk, metadata, number_inputs, input_values, dropdown,
                   dropdown_choices, button_interactive, passed_game,
                   passed_counts>>

(***************************************************************************)
(* Catalog discovery as an operation.                                      *)
(***************************************************************************)
CallListGames ==
    /\ catalog_pc = "start"
    /\ games' = list_games(tree)
    /\ catalog_pc' = "done"
    /\ UNCHANGED <<tree, pdfVars, uiVars>>

(***************************************************************************)
(* Specifications.                                                         *)
(***************************************************************************)
EmptyTree == [dirs |-> <<>>, plain |-> FALSE]

CatIdle ==
    /\ tree = EmptyTree
    /\ catalog_pc = "idle"
    /\ games = <<>>

PdfStart(pc0) ==
    /\ pc = pc0
    /\ normalized_counts = <<>>
    /\ total_front_cards = 0
    /\ layout_positions = <<>>
    /\ front_pages = <<>>
    /\ back_pages = <<>>
    /\ error = "None"
    /\ phase = "none"
    /\ gen = NewGenerator
    /\ card_image = <<>>
    /\ pages = <<>>
    /\ current_page = <<>>
    /\ slot_index = 0
    /\ dir_created = FALSE
    /\ document = InitialDocument(prior_document)
    /\ open_handles = {}
    /\ load_log = <<>>
    /\ front_log = <<>>
    /\ back_log = <<>>

PdfIdle ==
    /\ game = NoGame
    /\ card_counts = <<>>
    /\ undecodable = {}
    /\ prior_document = FALSE
    /\ PdfStart("idle")

UiIdle ==
    /\ disk = EmptyTree
    /\ metadata = <<>>
    /\ number_inputs = <<>>
    /\ input_values = <<>>
    /\ dropdown = "None"
    /\ dropdown_choices = <<>>
    /\ button_interactive = FALSE
    /\ ui_pc = "idle"
    /\ request_counts = <<>>
    /\ passed_game = NoGame
    /\ passed_counts = <<>>

\* generate_pdf called for a game of the catalog with any quantity map, at
\* most one file of the game being undecodable
Init ==
    /\ CatIdle
    /\ UiIdle
    /\ game \in Games
    /\ card_counts \in QuantityMaps
    /\ undecodable \in {u \in SUBSET PathsOf(game) : Cardinality(u) <= 1}
    /\ prior_document \in BOOLEAN
    /\ PdfStart("normalize")

Next ==
    \/ Normalize
    \/ MkDir
    \/ FrontYieldCopy
    \/ FrontLoadNext
    \/ FrontLoadFails
    \/ FrontExhausted
    \/ BackLoad
    \/ BackLoadFails
    \/ BackYieldCopy
    \/ BackExhausted
    \/ PasteCard
    \/ Assemble

Spec == Init /\ [][Next]_vars

\* list_games called on any base directory of the model
CatInit ==
    /\ PdfIdle
    /\ UiIdle
    /\ tree \in Trees
    /\ catalog_pc = "start"
    /\ games = <<>>

CatNext == CallListGames

SpecCatalog == CatInit /\ [][CatNext]_vars

\* the form after the module body of app.py ran against one of the base
\* directories (lines 60-63, 66-110)
UiInit ==
    /\ CatIdle
    /\ PdfIdle
    /\ disk \in UITrees
    /\ metadata = _game_metadata(list_games(disk))
    /\ number_inputs = BuildNumberInputs(metadata, 1)
    /\ input_values = [i \in 1..Len(number_inputs) |-> 0]
    /\ dropdown_choices = [i \in 1..Len(metadata) |-> metadata[i][1]]
    /\ dropdown = IF metadata = <<>> THEN "None" ELSE metadata[1][1]
    /\ button_interactive = (metadata # <<>>)
    /\ ui_pc = "ready"
    /\ request_counts = <<>>
    /\ passed_game = NoGame
    /\ passed_counts = <<>>

UiNext ==
    \/ \E i \in 1..Len(number_inputs), v \in 0..MaxInput : SetNumber(i, v)
    \/ \E g \in FolderNames : SelectGame(g)
    \/ RefreshGames
    \/ \E t \in UITrees : ChangeDisk(t)
    \/ GenerateDocument
    \/ GenerateDocumentUnknown

SpecUI == UiInit /\ [][UiNext]_vars

(***************************************************************************)
(* Properties.  The helpers below restate what the claims speak of from    *)
(* the arguments of the call, not from the locals of the code.             *)
(***************************************************************************)
CeilDiv(n, d) == (n + d - 1) \div d

IsPrefix(a, b) == Len(a) <= Len(b) /\ \A i \in 1..Len(a) : a[i] = b[i]

RECURSIVE Repeat(_, _)
Repeat(x, n) == IF n <= 0 THEN <<>> ELSE <<x>> \o Repeat(x, n - 1)

\* the count the quantity map asks for a card name, 0 when it has none
Requested(name) ==
    IF name \in DOMAIN card_counts /\ card_counts[name] > 0 THEN card_counts[name] ELSE 0

\* totalFront: the sum over all entries of the map of max(0, count)
TotalFront ==
    SumOver([k \in DOMAIN card_counts |-> IF card_counts[k] > 0 THEN card_counts[k] ELSE 0],
            DOMAIN card_counts)

AllNonPositive == \A k \in DOMAIN card_counts : card_counts[k] <= 0

\* the front cards in catalog order, each as often as requested
RECURSIVE ExpectedFront(_)
ExpectedFront(cards) ==
    IF cards = <<>> THEN <<>>
    ELSE Repeat(Head(cards).path, Requested(Head(cards).name)) \o ExpectedFront(Tail(cards))

\* the front cards with a positive count, in catalog order, each once
ExpectedLoads(cards) == SelectSeq(cards, LAMBDA c : Requested(c.name) > 0)

CardsOf(log) == [k \in 1..Len(log) |-> log[k].card]

FrontLoads == SelectSeq(load_log, LAMBDA p : p # game.back_card.path)

\* every placement of the log sits where a row-major fill of 9 slots puts it
RowMajorFill(log) ==
    \A k \in 1..Len(log) :
        /\ log[k].page = (k - 1) \div 9
        /\ log[k].slot = (k - 1) % 9
        /\ log[k].xy = _compute_layout_positions[log[k].slot + 1]

\* the pages hold the placements of the log in order, 9 to a page
PagesHold(pgs, log) ==
    \A i \in 1..Len(pgs) :
        \A j \in 1..Len(pgs[i]) :
            /\ 9 * (i - 1) + j <= Len(log)
            /\ pgs[i][j] = log[9 * (i - 1) + j]

\* the list _render_pages returned for the n images of the log
ReturnedPagesOk(pgs, log) ==
    /\ Len(pgs) = CeilDiv(Len(log), 9)
    /\ \A i \in 1..Len(pgs) :
           Len(pgs[i]) = IF i < Len(pgs) THEN 9 ELSE Len(log) - 9 * (Len(pgs) - 1)
    /\ \A i \in 1..Len(pgs) : Len(pgs[i]) >= 1
    /\ PagesHold(pgs, log)

FrontDone == phase = "back"

BackDone == pc \in {"assemble", "returned"}

\* C1: when generate_pdf returns, as many back images as front images were
\* emitted, and the N-th front card sits on the same page index and slot
\* index as the N-th back card, for every N up to totalFront.
C1_Alignment ==
    pc = "returned" =>
        /\ Len(back_log) = Len(front_log)
        /\ \A N \in 1..TotalFront :
               /\ N <= Len(front_log)
               /\ N <= Len(back_log)
               /\ front_log[N].page = back_log[N].page
               /\ front_log[N].slot = back_log[N].slot

\* C2: when generate_pdf returns, there are ceil(totalFront / 9) front pages
\* and as many back pages, and the document holds the front pages followed
\* by the back pages.
C2_PageCount ==
    pc = "returned" =>
        /\ Len(front_pages) = CeilDiv(TotalFront, 9)
        /\ Len(back_pages) = CeilDiv(TotalFront, 9)
        /\ Len(document.pages) = Len(front_pages) + Len(back_pages)
        /\ document.pages = front_pages \o back_pages

\* C3: a quantity map without a positive count ends in the empty-selection
\* error with no image loaded, no page started, the output directory and the
\* document untouched; a map with a positive count never raises that error.
C3_EmptySelection ==
    /\ AllNonPositive =>
           /\ pc \in {"normalize", "raised"}
           /\ pc = "raised" => error = "ValueError"
           /\ load_log = <<>> /\ front_log = <<>> /\ back_log = <<>>
           /\ open_handles = {}
           /\ pages = <<>> /\ current_page = <<>>
           /\ front_pages = <<>> /\ back_pages = <<>>
           /\ ~dir_created
           /\ document = InitialDocument(prior_document)
    /\ ~AllNonPositive => error # "ValueError"

C3_Witness ==
    /\ pc = "raised" /\ error = "ValueError"
    /\ \E k \in DOMAIN card_counts : card_counts[k] < 0
    /\ \E k \in DOMAIN card_counts : card_counts[k] = 0

\* a front card with a positive count, or the back card, cannot be decoded
NeededUndecodable ==
    \/ \E k \in 1..Len(game.front_cards) :
           /\ Requested(game.front_cards[k].name) > 0
           /\ game.front_cards[k].path \in undecodable
    \/ game.back_card.path \in undecodable

\* C4: every failure reaches the caller as an error and leaves the file at
\* the document path as it was; the document is written only by the last
\* step, when the front and the back pages are complete; a card that cannot
\* be decoded is never skipped.
C4_NoPartialDocument ==
    /\ pc = "raised" => error # "None"
    /\ pc # "returned" => document = InitialDocument(prior_document)
    /\ document.state = "written" =>
           /\ pc = "returned"
           /\ error = "None"
           /\ document.pages = front_pages \o back_pages
           /\ current_page = <<>> /\ card_image = <<>>
           /\ Len(back_log) = total_front_cards
    /\ NeededUndecodable => pc # "returned"

C4_Witness ==
    /\ pc = "raised" /\ error = "UnidentifiedImageError"
    /\ phase = "back" /\ front_pages # <<>>
    /\ prior_document /\ document.state = "previous"

\* C5: once generate_pdf has returned or raised, no card image, copy or
\* in-progress page buffer opened by the call is still open.
C5_ResourceRelease ==
    pc \in {"returned", "raised"} => open_handles = {}

\* C6: _render_pages fills pages row-major, 9 cards to a page: the k-th image
\* goes to page k div 9, slot k mod 9; the returned list has ceil(n / 9)
\* pages, all full but possibly the last, none empty; the slot cursor is in
\* 0..8 whenever an image is pasted.
C6_PageFill ==
    /\ slot_index \in 0..8
    /\ RowMajorFill(front_log) /\ RowMajorFill(back_log)
    /\ \A i \in 1..Len(pages) : Len(pages[i]) = 9
    /\ PagesHold(pages, IF phase = "front" THEN front_log ELSE back_log)
    /\ current_page # <<>> => Len(current_page[1]) = slot_index /\ slot_index > 0
    /\ FrontDone => ReturnedPagesOk(front_pages, front_log)
    /\ BackDone => ReturnedPagesOk(back_pages, back_log)

C6_Witness ==
    /\ pc = "returned"
    /\ Len(front_log) = 10
    /\ Len(front_pages) = 2 /\ Len(front_pages[1]) = 9 /\ Len(front_pages[2]) = 1
    /\ Len(back_log) = 10
    /\ Len(back_pages) = 2 /\ Len(back_pages[2]) = 1

\* C7: the front sequence yields the cards in catalog order, each card with
\* a positive count loaded once and yielded count times in a row, the cards
\* with no positive count neither loaded nor yielded.
C7_FrontSequence ==
    /\ IsPrefix(CardsOf(front_log), ExpectedFront(game.front_cards))
    /\ IsPrefix(FrontLoads, [k \in 1..Len(ExpectedLoads(game.front_cards)) |->
                                ExpectedLoads(game.front_cards)[k].path])
    /\ FrontDone =>
           /\ CardsOf(front_log) = ExpectedFront(game.front_cards)
           /\ Len(FrontLoads) = Len(ExpectedLoads(game.front_cards))

C7_Witness ==
    /\ FrontDone
    /\ game.name = "Bar"
    /\ DOMAIN card_counts = {"B", "a"}
    /\ card_counts["B"] = 0 /\ card_counts["a"] = 2
    /\ Len(front_log) = 2
    /\ front_log[1].slot = 0 /\ front_log[2].slot = 1
    /\ load_log[1] = <<"Bar", "a.png">>

\* the files of a folder that qualify as images
Qualifying(files) ==
    {f \in files : is_file(f) /\ lower(suffix(f)) \in ALLOWED_EXTENSIONS}

QualifyingBacks(files) == {f \in Qualifying(files) : lower(stem(f)) = "parte_atras"}

QualifyingFronts(files) == Qualifying(files) \ QualifyingBacks(files)

PosOf(f) == CHOOSE i \in 1..Len(FileOrder) : FileOrder[i] = f

\* C8: every entry of the mapping list_games returns has a non-empty list
\* of front cards in sorted file order, none with the stem of the back card,
\* and a back card whose stem is 'parte_atras' in any case; a folder lacking
\* front images or a back card is not in the mapping.
C8_CatalogDiscovery ==
    catalog_pc = "done" =>
        /\ \A n \in DOMAIN games :
               LET g == games[n]
                   files == tree.dirs[n]
                   fc == g.front_cards
               IN /\ n \in DOMAIN tree.dirs
                  /\ g.name = n
                  /\ fc # <<>>
                  /\ \A k \in 1..Len(fc) :
                         /\ fc[k].path[1] = n
                         /\ fc[k].path[2] \in QualifyingFronts(files)
                         /\ fc[k].name = stem(fc[k].path[2])
                         /\ lower(fc[k].name) # "parte_atras"
                  /\ \A k, l \in 1..Len(fc) :
                         k < l => PosOf(fc[k].path[2]) < PosOf(fc[l].path[2])
                  /\ {fc[k].path[2] : k \in 1..Len(fc)} = QualifyingFronts(files)
                  /\ g.back_card.path[2] \in QualifyingBacks(files)
        /\ \A f \in DOMAIN tree.dirs :
               (QualifyingFronts(tree.dirs[f]) = {} \/ QualifyingBacks(tree.dirs[f]) = {})
                   => f \notin DOMAIN games

C8_Witness ==
    /\ catalog_pc = "done"
    /\ DOMAIN tree.dirs = {"Bar", "Foo"}
    /\ tree.dirs["Bar"] = {"B.PNG", "PARTE_ATRAS.jpg", "a.png", "sub.png", "notes.txt"}
    /\ tree.dirs["Foo"] = {"parte_atras.png"}
    /\ DOMAIN games = {"Bar"}
    /\ Len(games["Bar"].front_cards) = 2

\* the margins a layout leaves around the grid
LeftMargin(pos) == pos[1][1]
RightMargin(pos) == PAGE_WIDTH - (pos[3][1] + CARD_WIDTH)
TopMargin(pos) == pos[1][2]
BottomMargin(pos) == PAGE_HEIGHT - (pos[7][2] + CARD_HEIGHT)

\* 9 slots in row-major order, columns 796 apart, rows 1244 apart
RowMajorGrid(pos) ==
    /\ Len(pos) = 9
    /\ \A i \in 1..9 :
           /\ pos[i][1] = pos[1][1] + ((i - 1) % 3) * 796
           /\ pos[i][2] = pos[1][2] + ((i - 1) \div 3) * 1244

\* C9 as stated: the 9 slots are row-major and the margins are equal on both
\* axes.
C9_SymmetricOriginal ==
    layout_positions # <<>> =>
        /\ RowMajorGrid(layout_positions)
        /\ LeftMargin(layout_positions) = RightMargin(layout_positions)
        /\ TopMargin(layout_positions) = BottomMargin(layout_positions)

\* C9 (amended): the 9 slots are row-major, columns 796 and rows 1244 apart;
\* the top margin equals the bottom margin, and the left margin is one pixel
\* more than the right margin (362 and 361), the horizontal slack being odd.
C9_LayoutAmended ==
    layout_positions # <<>> =>
        /\ RowMajorGrid(layout_positions)
        /\ TopMargin(layout_positions) = BottomMargin(layout_positions)
        /\ LeftMargin(layout_positions) = RightMargin(layout_positions) + 1
        /\ LeftMargin(layout_positions) = 362
        /\ TopMargin(layout_positions) = 336

C9_Witness ==
    /\ pc = "paste"
    /\ slot_index = 8
    /\ layout_positions[slot_index + 1] = <<1954, 2824>>

\* C10: the quantity map generate_document hands to generate_pdf gives every
\* front card of the selected game the value of that card's own number input.
C10_OwnInputs ==
    ui_pc = "called" =>
        \A k \in 1..Len(passed_game.front_cards) :
            \A i \in 1..Len(number_inputs) :
                (/\ number_inputs[i].game = passed_game.name
                 /\ number_inputs[i].card = passed_game.front_cards[k].name)
                    => passed_counts[passed_game.front_cards[k].name] = request_counts[i]

=============================================================================
